---- MODULE Spec2Model ----
(***************************************************************************)
(* Easy-Mongo: the migration runner (MigrationManager) and the document   *)
(* history log (VersioningManager, driven by the EasyMongo facade).       *)
(*                                                                         *)
(* The two components share no state.  SpecMig runs the migration runner  *)
(* and SpecHist the history log; each leaves the other's variables alone. *)
(* SpecRunners and SpecWriters run two callers side by side.               *)
(***************************************************************************)
EXTENDS Integers, Sequences, FiniteSets, TLC

VARIABLES
    migrations,    \* MigrationManager.migrations: the in-memory registry
    ledger,        \* the Migration collection, in ascending appliedAt order
    pc,            \* "idle" | "apply" | "rollbackTo" | "done": position of the runner's caller
    call,          \* local variables of the call in progress
    result,        \* how the last call ended: a returned value or a thrown error
    events,        \* up/down invocations and ledger writes of the current call, in order
    ledgerAtCall,  \* the ledger as it was when the current call started
    effect,        \* effect[n]: n's up() last completed and its down() has not completed since
    faults,        \* number of storage failures injected so far
    live,          \* the model's collection: live[id] is the stored document or NoDoc
    history,       \* the history collection: the set of stored entries
    hres,          \* how the last facade or versioning call ended
    hlog,          \* hlog[id]: where record id is in create -> update x N -> delete, or "other"
    hfaults,       \* number of failed history writes injected so far
    runners,       \* runners[p]: the applyMigrations call of process p, run beside the other's
    writers,       \* writers[w]: the trackUpdate or trackDeletion call of caller w, run beside the other's
    diff           \* a _detectChanges call: its two arguments and what it returned

migVars == <<migrations, ledger, pc, call, result, events, ledgerAtCall, effect, faults>>
histVars == <<live, history, hres, hlog, hfaults>>
raceVars == <<runners, writers>>
diffVars == <<diff>>
vars == <<migVars, histVars, raceVars, diffVars>>

(***************************************************************************)
(* Bounds                                                                  *)
(***************************************************************************)
MaxVersion == 3        \* migration versions range over 1..MaxVersion (0 is offered too)
MaxFaults == 1         \* storage failures injected per behaviour
MaxHistory == 3        \* history entries kept in the history collection

Names == {"a", "b"}
NoName == ""
NoVersion == -1        \* a definition without a version field (undefined)

(***************************************************************************)
(* Sequence helpers                                                        *)
(***************************************************************************)
Range(s) == {s[i] : i \in 1 .. Len(s)}

NameSet(s) == {s[i].name : i \in 1 .. Len(s)}

\* Array.prototype.find(m => m.name === n): the first match, or none
HasName(s, n) == \E i \in 1 .. Len(s) : s[i].name = n

FindByName(s, n) == s[CHOOSE i \in 1 .. Len(s) : s[i].name = n /\ \A j \in 1 .. i - 1 : s[j].name # n]

RemoveByName(s, n) == SelectSeq(s, LAMBDA r : r.name # n)

\* insert x into the ascending sequence s behind every element whose version is
\* <= x's, so that equal versions keep their earlier order
InsertAsc(s, x) ==
    LET p == Cardinality({i \in 1 .. Len(s) : s[i].version <= x.version})
    IN  SubSeq(s, 1, p) \o <<x>> \o SubSeq(s, p + 1, Len(s))

\* the pending list left in registration order
Unsorted(s) == s

RECURSIVE SortAscStable(_)
\* Array.prototype.sort((a, b) => a.version - b.version): ascending and stable
SortAscStable(s) ==
    IF s = <<>> THEN <<>>
    ELSE InsertAsc(SortAscStable(SubSeq(s, 1, Len(s) - 1)), s[Len(s)])

\* find(filter).sort({version: -1}): every order of the matching records that is
\* descending in version; the store leaves the order of equal versions open
IsPermOf(t, s) ==
    /\ Len(t) = Len(s)
    /\ \E f \in [1 .. Len(s) -> 1 .. Len(s)] :
          /\ \A i, j \in 1 .. Len(s) : i # j => f[i] # f[j]
          /\ \A i \in 1 .. Len(s) : t[i] = s[f[i]]

\* sort({version: 1}) in place of sort({version: -1})
SortedAsc(s) ==
    {t \in [1 .. Len(s) -> Range(s)] :
        /\ IsPermOf(t, s)
        /\ \A i \in 1 .. Len(s) - 1 : t[i].version <= t[i + 1].version}

SortedDesc(s) ==
    {t \in [1 .. Len(s) -> Range(s)] :
        /\ IsPermOf(t, s)
        /\ \A i \in 1 .. Len(s) - 1 : t[i].version >= t[i + 1].version}

(***************************************************************************)
(* Migration runner: MigrationManager                                      *)
(***************************************************************************)
NoCall == [op |-> "none"]
NoResult == [kind |-> "none"]

\* the definitions a caller may hand to registerMigration; no version, version
\* 0, no name and no up function are the malformed ones
MigrationInputs ==
    [name : Names \cup {NoName}, version : {NoVersion} \cup 0 .. MaxVersion,
     up : BOOLEAN, down : BOOLEAN]

InitMig ==
    /\ migrations = <<>>
    /\ ledger = <<>>
    /\ pc = "idle"
    /\ call = NoCall
    /\ result = NoResult
    /\ events = <<>>
    /\ ledgerAtCall = <<>>
    /\ effect = [n \in Names |-> FALSE]
    /\ faults = 0

\* registerMigration's first check: !migration.name || !migration.version || !migration.up
\* a check that tells a version of 0 from a missing one
MalformedUnlessZero(m) == m.name = NoName \/ m.version = NoVersion \/ ~m.up

\* !x of a version: true of undefined and of 0
Falsy(version) == version = NoVersion \/ version = 0

Malformed(m) == m.name = NoName \/ Falsy(m.version) \/ ~m.up

\* a registration without the check for an existing name
RegisterWithoutLookup(m) ==
    /\ pc = "idle"
    /\ pc' = "done"
    /\ call' = [op |-> "register"]
    /\ events' = <<>>
    /\ ledgerAtCall' = ledger
    /\ IF Malformed(m)
         THEN /\ result' = [kind |-> "throw", error |-> "invalid"]
              /\ UNCHANGED migrations
         ELSE /\ result' = [kind |-> "return"]
              /\ migrations' = Append(migrations, m)
    /\ UNCHANGED <<ledger, effect, faults, histVars, raceVars, diffVars>>

\* registerMigration(migration)
RegisterMigration(m) ==
    /\ pc = "idle"
    /\ pc' = "done"
    /\ call' = [op |-> "register"]
    /\ events' = <<>>
    /\ ledgerAtCall' = ledger
    /\ IF Malformed(m)
         THEN /\ result' = [kind |-> "throw", error |-> "invalid"]
              /\ UNCHANGED migrations
         ELSE IF HasName(migrations, m.name)
         THEN /\ result' = [kind |-> "throw", error |-> "duplicate"]
              /\ UNCHANGED migrations
         ELSE /\ result' = [kind |-> "return"]
              /\ migrations' = Append(migrations, m)
    /\ UNCHANGED <<ledger, effect, faults, histVars, raceVars, diffVars>>

\* a new process: new MigrationManager() starts with an empty registry, the
\* Migration collection is what it was
NewRunner ==
    /\ pc = "idle"
    /\ migrations # <<>>
    /\ migrations' = <<>>
    /\ UNCHANGED <<ledger, pc, call, result, events, ledgerAtCall, effect, faults, histVars, raceVars, diffVars>>

\* pending decided by (name, version) instead of by name
PendingByNameAndVersion(reg, led) ==
    SortAscStable(SelectSeq(reg, LAMBDA m :
        [name |-> m.name, version |-> m.version] \notin Range(led)))

\* this.migrations.filter(m => !appliedNames.includes(m.name)).sort(by version)
PendingMigrations(reg, led) ==
    SortAscStable(SelectSeq(reg, LAMBDA m : m.name \notin NameSet(led)))

Succeeded(rs) == SelectSeq(rs, LAMBDA r : r.success)
Failed(rs) == SelectSeq(rs, LAMBDA r : ~r.success)

\* applyMigrations(options), up to the first loop iteration
ApplyBegin(continueOnError) ==
    /\ pc = "idle"
    /\ events' = <<>>
    /\ ledgerAtCall' = ledger
    /\ LET pending == PendingMigrations(migrations, ledger)
       IN  IF Len(pending) = 0
             THEN /\ pc' = "done"
                  /\ call' = [op |-> "apply", pending |-> pending, i |-> 1, results |-> <<>>,
                              continueOnError |-> continueOnError]
                  /\ result' = [kind |-> "return", applied |-> 0, message |-> "No pending migrations"]
             ELSE /\ pc' = "apply"
                  /\ call' = [op |-> "apply", pending |-> pending, i |-> 1, results |-> <<>>,
                              continueOnError |-> continueOnError]
                  /\ result' = NoResult
    /\ UNCHANGED <<migrations, ledger, effect, faults, histVars, raceVars, diffVars>>

\* a summary that counts every result as applied
SummaryCountingAll(rs) ==
    [kind |-> "return", applied |-> Len(rs), failed |-> Len(Failed(rs)), results |-> rs]

\* what applyMigrations returns after its loop
ApplySummary(rs) ==
    [kind |-> "return", applied |-> Len(Succeeded(rs)), failed |-> Len(Failed(rs)), results |-> rs]

\* MigrationModel.create(record): the unique index on name rejects a second
\* record of the same name; the store may also fail the write
CreateAccepted(led, n, storeOk) == storeOk /\ ~HasName(led, n)

\* a catch block that never rethrows
AdvanceIgnoringFlag(rs, failedNow) ==
    IF call.i = Len(call.pending)
      THEN /\ pc' = "done"
           /\ call' = [call EXCEPT !.results = rs]
           /\ result' = ApplySummary(rs)
      ELSE /\ pc' = "apply"
           /\ call' = [call EXCEPT !.results = rs, !.i = call.i + 1]
           /\ result' = NoResult

\* the end of one loop iteration of applyMigrations: rs is results after it
ApplyAdvance(rs, failedNow) ==
    IF failedNow /\ ~call.continueOnError
      THEN /\ pc' = "done"
           /\ call' = [call EXCEPT !.results = rs]
           /\ result' = [kind |-> "throw", error |-> "failed", name |-> call.pending[call.i].name]
      ELSE IF call.i = Len(call.pending)
      THEN /\ pc' = "done"
           /\ call' = [call EXCEPT !.results = rs]
           /\ result' = ApplySummary(rs)
      ELSE /\ pc' = "apply"
           /\ call' = [call EXCEPT !.results = rs, !.i = call.i + 1]
           /\ result' = NoResult

\* one iteration of applyMigrations' loop: up(), then the ledger write, then
\* results.push; a throw of either lands in the catch block
ApplyStep(upOk, storeOk) ==
    /\ pc = "apply"
    /\ (upOk \/ storeOk)
    /\ LET m == call.pending[call.i]
           okResult == [name |-> m.name, version |-> m.version, success |-> TRUE]
           badResult == [name |-> m.name, version |-> m.version, success |-> FALSE]
       IN  IF ~upOk
             THEN /\ events' = Append(events, [op |-> "up", name |-> m.name, ok |-> FALSE])
                  /\ ApplyAdvance(Append(call.results, badResult), TRUE)
                  /\ UNCHANGED <<ledger, effect, faults>>
             ELSE /\ effect' = [effect EXCEPT ![m.name] = TRUE]
                  /\ (storeOk \/ faults < MaxFaults)
                  /\ faults' = IF storeOk THEN faults ELSE faults + 1
                  /\ IF CreateAccepted(ledger, m.name, storeOk)
                       THEN /\ ledger' = Append(ledger, [name |-> m.name, version |-> m.version])
                            /\ events' = events \o <<[op |-> "up", name |-> m.name, ok |-> TRUE],
                                                     [op |-> "create", name |-> m.name, ok |-> TRUE]>>
                            /\ ApplyAdvance(Append(call.results, okResult), FALSE)
                       ELSE /\ UNCHANGED ledger
                            /\ events' = events \o <<[op |-> "up", name |-> m.name, ok |-> TRUE],
                                                     [op |-> "create", name |-> m.name, ok |-> FALSE]>>
                            /\ ApplyAdvance(Append(call.results, badResult), TRUE)
    /\ UNCHANGED <<migrations, ledgerAtCall, histVars, raceVars, diffVars>>

\* MigrationModel.deleteOne({name}): the store may fail the delete
DeleteAccepted(storeOk) == storeOk

\* the record deleted whether or not down() went through
LedgerAfterDownAlways(led, n, downOk, storeOk) ==
    IF DeleteAccepted(storeOk) THEN RemoveByName(led, n) ELSE led

\* the try block of a rollback: down(), then deleteOne({name}); the record goes
\* only when both went through
LedgerAfterDown(led, n, downOk, storeOk) ==
    IF downOk /\ DeleteAccepted(storeOk) THEN RemoveByName(led, n) ELSE led

\* the record of the highest version, the latest written among equals
HighestVersion(led) ==
    led[CHOOSE i \in 1 .. Len(led) :
            /\ \A j \in 1 .. Len(led) : led[j].version <= led[i].version
            /\ \A j \in i + 1 .. Len(led) : led[j].version < led[i].version]

\* MigrationModel.findOne().sort({appliedAt: -1}) on a ledger that has records
LastApplied(led) == led[Len(led)]

\* rollbackLastMigration(): findOne().sort({appliedAt: -1}) is the record
\* written last
RollbackLastMigration(downOk, storeOk) ==
    /\ pc = "idle"
    /\ pc' = "done"
    /\ call' = [op |-> "rollbackLast"]
    /\ ledgerAtCall' = ledger
    /\ IF ledger = <<>>
         THEN /\ result' = [kind |-> "return", rolled_back |-> 0, message |-> "No migrations to rollback"]
              /\ events' = <<>>
              /\ UNCHANGED <<ledger, effect, faults>>
         ELSE LET lastApplied == LastApplied(ledger)
                  n == lastApplied.name
              IN  IF ~HasName(migrations, n)
                    THEN /\ result' = [kind |-> "throw", error |-> "unregistered", name |-> n]
                         /\ events' = <<>>
                         /\ UNCHANGED <<ledger, effect, faults>>
                    ELSE IF ~FindByName(migrations, n).down
                    THEN /\ result' = [kind |-> "throw", error |-> "no down", name |-> n]
                         /\ events' = <<>>
                         /\ UNCHANGED <<ledger, effect, faults>>
                    ELSE /\ (downOk \/ storeOk)
                         /\ (storeOk \/ faults < MaxFaults)
                         /\ faults' = IF storeOk THEN faults ELSE faults + 1
                         /\ effect' = [effect EXCEPT ![n] = IF downOk THEN FALSE ELSE @]
                         /\ ledger' = LedgerAfterDown(ledger, n, downOk, storeOk)
                         /\ events' = IF downOk
                                        THEN <<[op |-> "down", name |-> n, ok |-> TRUE],
                                               [op |-> "delete", name |-> n, ok |-> DeleteAccepted(storeOk)]>>
                                        ELSE <<[op |-> "down", name |-> n, ok |-> FALSE]>>
                         /\ result' = IF downOk /\ DeleteAccepted(storeOk)
                                        THEN [kind |-> "return", rolled_back |-> 1, name |-> n,
                                              version |-> FindByName(migrations, n).version]
                                        ELSE [kind |-> "throw", error |-> "failed", name |-> n]
    /\ UNCHANGED <<migrations, histVars, raceVars, diffVars>>

\* $gte in place of $gt
VersionAtLeast(led, targetVersion) == SelectSeq(led, LAMBDA r : r.version >= targetVersion)

\* find({version: {$gt: targetVersion}}): the records rollbackToVersion selects
VersionAbove(led, targetVersion) == SelectSeq(led, LAMBDA r : r.version > targetVersion)

\* rollbackToVersion(targetVersion), up to the first loop iteration
RollbackToBegin(targetVersion) ==
    /\ pc = "idle"
    /\ events' = <<>>
    /\ ledgerAtCall' = ledger
    /\ \E list \in SortedDesc(VersionAbove(ledger, targetVersion)) :
          /\ call' = [op |-> "rollbackTo", target |-> targetVersion, list |-> list, i |-> 1,
                      results |-> <<>>]
          /\ IF Len(list) = 0
               THEN /\ pc' = "done"
                    /\ result' = [kind |-> "return", rolled_back |-> 0,
                                  message |-> "No migrations to rollback"]
               ELSE /\ pc' = "rollbackTo"
                    /\ result' = NoResult
    /\ UNCHANGED <<migrations, ledger, effect, faults, histVars, raceVars, diffVars>>

\* the end of a loop iteration of rollbackToVersion that did not throw
RollbackAdvance(rs) ==
    IF call.i = Len(call.list)
      THEN /\ pc' = "done"
           /\ call' = [call EXCEPT !.results = rs]
           /\ result' = [kind |-> "return", rolled_back |-> Len(rs), results |-> rs]
      ELSE /\ pc' = "rollbackTo"
           /\ call' = [call EXCEPT !.results = rs, !.i = call.i + 1]
           /\ result' = NoResult

\* a loop iteration of rollbackToVersion that throws
RollbackAbort(rs, why) ==
    /\ pc' = "done"
    /\ call' = [call EXCEPT !.results = rs]
    /\ result' = [kind |-> "throw", error |-> why, name |-> call.list[call.i].name]

\* one iteration of rollbackToVersion's loop
RollbackToStep(downOk, storeOk) ==
    /\ pc = "rollbackTo"
    /\ (downOk \/ storeOk)
    /\ LET appliedMigration == call.list[call.i]
           n == appliedMigration.name
       IN  IF ~HasName(migrations, n)
             THEN /\ RollbackAbort(call.results, "unregistered")
                  /\ UNCHANGED <<ledger, effect, faults, events>>
             ELSE IF ~FindByName(migrations, n).down
             THEN /\ RollbackAbort(call.results, "no down")
                  /\ UNCHANGED <<ledger, effect, faults, events>>
             ELSE LET migration == FindByName(migrations, n)
                      okResult == [name |-> n, version |-> migration.version, success |-> TRUE]
                      badResult == [name |-> n, version |-> migration.version, success |-> FALSE]
                  IN  IF ~downOk
                        THEN /\ events' = Append(events, [op |-> "down", name |-> n, ok |-> FALSE])
                             /\ RollbackAbort(Append(call.results, badResult), "failed")
                             /\ UNCHANGED <<ledger, effect, faults>>
                        ELSE /\ effect' = [effect EXCEPT ![n] = FALSE]
                             /\ (storeOk \/ faults < MaxFaults)
                             /\ faults' = IF storeOk THEN faults ELSE faults + 1
                             /\ events' = events \o <<[op |-> "down", name |-> n, ok |-> TRUE],
                                                      [op |-> "delete", name |-> n,
                                                       ok |-> DeleteAccepted(storeOk)]>>
                             /\ IF DeleteAccepted(storeOk)
                                  THEN /\ ledger' = RemoveByName(ledger, n)
                                       /\ RollbackAdvance(Append(call.results, okResult))
                                  ELSE /\ UNCHANGED ledger
                                       /\ RollbackAbort(Append(call.results, badResult), "failed")
    /\ UNCHANGED <<migrations, ledgerAtCall, histVars, raceVars, diffVars>>

\* the ledger as it is stored, not sorted
InStoredOrder(led) == {led}

\* MigrationModel.find().sort({version: 1}): every order of the records that
\* is ascending in version; the store leaves the order of equal versions open
FindSortedByVersion(led) ==
    {t \in [1 .. Len(led) -> Range(led)] :
        /\ IsPermOf(t, led)
        /\ \A i \in 1 .. Len(led) - 1 : t[i].version <= t[i + 1].version}

\* getMigrationStatus()
GetMigrationStatus ==
    /\ pc = "idle"
    /\ pc' = "done"
    /\ call' = [op |-> "status"]
    /\ events' = <<>>
    /\ ledgerAtCall' = ledger
    /\ \E appliedMigrations \in FindSortedByVersion(ledger) :
          LET appliedNames == NameSet(appliedMigrations)
              pendingMigrations ==
                  SortAscStable(SelectSeq(migrations, LAMBDA m : m.name \notin appliedNames))
          IN  result' = [kind |-> "return",
                         applied |-> appliedMigrations,
                         pending |-> [i \in 1 .. Len(pendingMigrations) |->
                                         [name |-> pendingMigrations[i].name,
                                          version |-> pendingMigrations[i].version]]]
    /\ UNCHANGED <<migrations, ledger, effect, faults, histVars, raceVars, diffVars>>

\* the caller takes the outcome of the finished call
Return ==
    /\ pc = "done"
    /\ pc' = "idle"
    /\ call' = NoCall
    /\ result' = NoResult
    /\ events' = <<>>
    /\ ledgerAtCall' = <<>>
    /\ UNCHANGED <<migrations, ledger, effect, faults, histVars, raceVars, diffVars>>

NextMig ==
    \/ \E m \in MigrationInputs : RegisterMigration(m)
    \/ NewRunner
    \/ \E c \in BOOLEAN : ApplyBegin(c)
    \/ \E upOk, storeOk \in BOOLEAN : ApplyStep(upOk, storeOk)
    \/ \E downOk, storeOk \in BOOLEAN : RollbackLastMigration(downOk, storeOk)
    \/ \E t \in 0 .. MaxVersion : RollbackToBegin(t)
    \/ \E downOk, storeOk \in BOOLEAN : RollbackToStep(downOk, storeOk)
    \/ GetMigrationStatus
    \/ Return

(***************************************************************************)
(* Two processes running applyMigrations against one ledger                *)
(***************************************************************************)
Procs == {"p1", "p2"}

IdleRunner ==
    [pc |-> "idle", pending |-> <<>>, i |-> 1, continueOnError |-> FALSE,
     results |-> <<>>, outcome |-> "none", invoked |-> {}]

InitRunners == runners = [p \in Procs |-> IdleRunner]

\* start-up: both processes run the same registerMigration calls, so one
\* registry stands for both; no process has touched the ledger yet
Configure(m) ==
    /\ ledger = <<>>
    /\ \A p \in Procs : runners[p] = IdleRunner
    /\ RegisterMigration(m)

\* process p's applyMigrations(options) up to the loop: the ledger is read once
RunnerBegin(p, continueOnError) ==
    /\ pc = "idle"
    /\ runners[p].pc = "idle"
    /\ LET pending == PendingMigrations(migrations, ledger)
       IN  runners' = [runners EXCEPT ![p] =
               [pc |-> IF Len(pending) = 0 THEN "idle" ELSE "up",
                pending |-> pending, i |-> 1, continueOnError |-> continueOnError,
                results |-> <<>>, outcome |-> IF Len(pending) = 0 THEN "return" ELSE "none",
                invoked |-> @.invoked]]
    /\ UNCHANGED <<migVars, histVars, writers, diffVars>>

\* await migration.up() of process p; invoked collects the names whose up()
\* this process has called
RunnerUp(p) ==
    /\ runners[p].pc = "up"
    /\ LET m == runners[p].pending[runners[p].i]
       IN  runners' = [runners EXCEPT ![p].pc = "create",
                                      ![p].invoked = @ \cup {m.name}]
    /\ UNCHANGED <<migVars, histVars, writers, diffVars>>

\* await MigrationModel.create(record) of process p and the rest of the loop
\* iteration; neither up() nor the store fails here, so a rejected write is
\* the unique index's
RunnerCreate(p) ==
    /\ runners[p].pc = "create"
    /\ LET r == runners[p]
           m == r.pending[r.i]
           accepted == CreateAccepted(ledger, m.name, TRUE)
           rs == Append(r.results, [name |-> m.name, version |-> m.version, success |-> accepted])
       IN  /\ ledger' = IF accepted
                          THEN Append(ledger, [name |-> m.name, version |-> m.version])
                          ELSE ledger
           /\ runners' = [runners EXCEPT ![p] =
                  IF ~accepted /\ ~r.continueOnError
                    THEN [r EXCEPT !.pc = "idle", !.results = rs, !.outcome = "throw"]
                  ELSE IF r.i = Len(r.pending)
                    THEN [r EXCEPT !.pc = "idle", !.results = rs, !.outcome = "return"]
                  ELSE [r EXCEPT !.pc = "up", !.results = rs, !.i = r.i + 1]]
    /\ UNCHANGED <<migrations, pc, call, result, events, ledgerAtCall, effect, faults,
                   histVars, writers, diffVars>>

NextRunners ==
    \/ \E m \in MigrationInputs : Configure(m)
    \/ Return
    \/ \E p \in Procs, c \in BOOLEAN : RunnerBegin(p, c)
    \/ \E p \in Procs : RunnerUp(p)
    \/ \E p \in Procs : RunnerCreate(p)

(***************************************************************************)
(* History log: VersioningManager behind the EasyMongo facade              *)
(*                                                                         *)
(* A document is a function from the keys it has to their values.          *)
(***************************************************************************)
DocIds == {"d1", "d2"}
InternalKeys == {"_id", "__v"}
Undefined == "undefined"
NoDoc == [absent |-> TRUE]
NoChanges == [null |-> TRUE]
NoUser == ""

\* what a caller may pass as data to create
CreateInputs == {[name |-> "A"]}

\* what a caller may pass as data to updateById
UpdateInputs == {[name |-> "B"], [tag |-> "X"]}

\* hlog[id] follows the calls that changed record id while they are a create,
\* then updateById calls, then a delete, each returning normally; any other
\* call that changed the record (a revert, a call whose history write was
\* rejected, a create after the delete) leaves that shape for good
NoCalls == [phase |-> "none", updates |-> 0]
OtherCalls == [phase |-> "other", updates |-> 0]

Logged(l, op) ==
    IF l.phase = "none" /\ op = "create" THEN [phase |-> "created", updates |-> 0]
    ELSE IF l.phase = "created" /\ op = "update" THEN [l EXCEPT !.updates = @ + 1]
    ELSE IF l.phase = "created" /\ op = "delete" THEN [l EXCEPT !.phase = "deleted"]
    ELSE OtherCalls

\* the records are named in the order of their first creation: a record that
\* was never created has made no call yet, and "d2" names the second record
\* ever created. ids are the records a call creates, in order
IdOrder == <<"d1", "d2">>

NeverCreated(id) == hlog[id].phase = "none"

NamedInOrder(ids) ==
    \A i \in DOMAIN ids, k \in DOMAIN IdOrder :
        (NeverCreated(ids[i]) /\ IdOrder[k] = ids[i]) =>
            \A j \in 1 .. k - 1 :
                \/ ~NeverCreated(IdOrder[j])
                \/ \E m \in 1 .. i - 1 : ids[m] = IdOrder[j]

InitHist ==
    /\ live = [id \in DocIds |-> NoDoc]
    /\ history = {}
    /\ hres = NoResult
    /\ hlog = [id \in DocIds |-> NoCalls]
    /\ hfaults = 0

\* obj[key] in JavaScript: undefined for a key the object does not have
Get(obj, key) == IF key \in DOMAIN obj THEN obj[key] ELSE Undefined

\* JSON.stringify of a field value: the quoted text of a string, and undefined
\* (no text at all, written <<>>) for undefined
Stringify(v) == IF v = Undefined THEN <<>> ELSE <<"\"", v, "\"">>

\* new Model(data) with a caller-chosen _id, as stored by save()
NewDocument(id, data) ==
    [k \in DOMAIN data \cup InternalKeys |->
        IF k = "_id" THEN id ELSE IF k = "__v" THEN 0 ELSE data[k]]

\* findByIdAndUpdate(id, data, {new: true}): the fields of data are $set
ApplyUpdate(doc, data) ==
    [k \in DOMAIN doc \cup DOMAIN data |-> IF k \in DOMAIN data THEN data[k] ELSE doc[k]]

\* _cleanDocument(doc): doc.toObject(), a copy of the stored fields
CleanDocument(doc) == doc

\* a diff without the second loop, the one over the old document's fields
DetectChangesWithoutRemoved(oldDoc, newDoc) ==
    [k \in {f \in DOMAIN newDoc \ InternalKeys :
                Stringify(Get(oldDoc, f)) # Stringify(newDoc[f])} |->
        [from |-> Get(oldDoc, k), to |-> newDoc[k]]]

\* a diff that leaves out only _id and reports every other field of the new
\* document, whether its value changed or not
DetectChangesByIdentity(oldDoc, newDoc) ==
    [k \in DOMAIN newDoc \ {"_id"} |-> [from |-> Get(oldDoc, k), to |-> newDoc[k]]]

\* _detectChanges(oldDoc, newDoc)
DetectChanges(oldDoc, newDoc) ==
    LET changed == {k \in DOMAIN newDoc \ InternalKeys :
                        Stringify(Get(oldDoc, k)) # Stringify(newDoc[k])}
        deleted == {k \in DOMAIN oldDoc \ InternalKeys : Get(newDoc, k) = Undefined}
    IN  [k \in changed \cup deleted |->
            IF k \in deleted
              THEN [from |-> oldDoc[k], to |-> Undefined]
              ELSE [from |-> Get(oldDoc, k), to |-> newDoc[k]]]

EntriesOf(h, id) == {e \in h : e.documentId = id}

VersionsOf(h, id) == {e.version : e \in EntriesOf(h, id)}

Max(S) == CHOOSE x \in S : \A y \in S : y <= x

\* the latest version of any document: the documentId filter left out
LatestVersionOfAnyDocument(h, id) ==
    IF h = {} THEN 0 ELSE Max({e.version : e \in h})

\* _getLatestVersion(documentId): findOne sorted by version descending, or 0
GetLatestVersion(h, id) == IF VersionsOf(h, id) = {} THEN 0 ELSE Max(VersionsOf(h, id))

\* the version trackUpdate and trackDeletion give the entry they write
NextVersion(h, id) == GetLatestVersion(h, id) + 1

\* a history collection without the unique index on (documentId, version)
SaveUnindexed(h, e, storeOk) == storeOk

\* historyEntry.save(): the unique index on (documentId, version) rejects a
\* second entry of the same pair; the store may also fail the write
SaveAccepted(h, e, storeOk) == storeOk /\ e.version \notin VersionsOf(h, e.documentId)

\* the entry trackCreation(document, options) builds
CreationEntry(doc, user) ==
    [documentId |-> doc["_id"], version |-> 1, data |-> CleanDocument(doc),
     operation |-> "create", changedBy |-> IF user = NoUser THEN "system" ELSE user,
     changes |-> NoChanges]

\* the entry trackUpdate(oldDocument, newDocument, options) builds
UpdateEntry(h, oldDoc, newDoc, user) ==
    [documentId |-> newDoc["_id"], version |-> NextVersion(h, newDoc["_id"]),
     data |-> CleanDocument(newDoc), operation |-> "update",
     changedBy |-> IF user = NoUser THEN "system" ELSE user,
     changes |-> DetectChanges(oldDoc, newDoc)]

\* a deletion entry written with trackUpdate's operation
DeletionEntryAsUpdate(h, doc, user) ==
    [documentId |-> doc["_id"], version |-> NextVersion(h, doc["_id"]),
     data |-> CleanDocument(doc), operation |-> "update",
     changedBy |-> IF user = NoUser THEN "system" ELSE user,
     changes |-> NoChanges]

\* the entry trackDeletion(document, options) builds
DeletionEntry(h, doc, user) ==
    [documentId |-> doc["_id"], version |-> NextVersion(h, doc["_id"]),
     data |-> CleanDocument(doc), operation |-> "delete",
     changedBy |-> IF user = NoUser THEN "system" ELSE user,
     changes |-> NoChanges]

\* getHistory(documentId) with its default options: every entry of the
\* document, sorted by version descending
GetHistory(h, id) ==
    LET es == EntriesOf(h, id)
        n == Cardinality(es)
    IN  CHOOSE t \in [1 .. n -> es] :
            /\ \A e \in es : \E i \in 1 .. n : t[i] = e
            /\ \A i \in 1 .. n - 1 : t[i].version >= t[i + 1].version

\* getVersion(documentId, version): the stored data, or null
GetVersion(h, id, v) ==
    IF \E e \in EntriesOf(h, id) : e.version = v
      THEN (CHOOSE e \in EntriesOf(h, id) : e.version = v).data
      ELSE NoDoc

\* a tracking call that catches the rejected save and lets the call return
TrackSwallowing(entry, storeOk, op, id) ==
    /\ Cardinality(history) < MaxHistory
    /\ (storeOk \/ hfaults < MaxFaults)
    /\ hfaults' = IF storeOk THEN hfaults ELSE hfaults + 1
    /\ hres' = [kind |-> "return"]
    /\ IF SaveAccepted(history, entry, storeOk)
         THEN /\ history' = history \cup {entry}
              /\ hlog' = [hlog EXCEPT ![id] = Logged(@, op)]
         ELSE /\ UNCHANGED history
              /\ hlog' = [hlog EXCEPT ![id] = OtherCalls]

\* a save that writes over the document's latest entry instead of adding one
TrackOverwriting(entry, storeOk, op, id) ==
    /\ Cardinality(history) < MaxHistory
    /\ (storeOk \/ hfaults < MaxFaults)
    /\ hfaults' = IF storeOk THEN hfaults ELSE hfaults + 1
    /\ IF storeOk
         THEN /\ history' = {e \in history : e.documentId # id
                                \/ e.version # GetLatestVersion(history, id)}
                                \cup {entry}
              /\ hres' = [kind |-> "return"]
              /\ hlog' = [hlog EXCEPT ![id] = Logged(@, op)]
         ELSE /\ UNCHANGED history
              /\ hres' = [kind |-> "throw", error |-> "history"]
              /\ hlog' = [hlog EXCEPT ![id] = OtherCalls]

\* the tail shared by the facade's tracked calls: the entry is saved after the
\* business write; a rejected save throws out of the call
Track(entry, storeOk, op, id) ==
    /\ Cardinality(history) < MaxHistory
    /\ (storeOk \/ hfaults < MaxFaults)
    /\ hfaults' = IF storeOk THEN hfaults ELSE hfaults + 1
    /\ IF SaveAccepted(history, entry, storeOk)
         THEN /\ history' = history \cup {entry}
              /\ hres' = [kind |-> "return"]
              /\ hlog' = [hlog EXCEPT ![id] = Logged(@, op)]
         ELSE /\ UNCHANGED history
              /\ hres' = [kind |-> "throw", error |-> "history"]
              /\ hlog' = [hlog EXCEPT ![id] = OtherCalls]

\* EasyMongo.create(data): crud.create, then trackCreation(result)
Create(id, data, storeOk) ==
    /\ live[id] = NoDoc
    /\ NamedInOrder(<<id>>)
    /\ LET doc == NewDocument(id, data)
       IN  /\ live' = [live EXCEPT ![id] = doc]
           /\ Track(CreationEntry(doc, NoUser), storeOk, "create", id)
    /\ UNCHANGED <<migVars, raceVars, diffVars>>

\* an updateById that tracks the update only when some field changed
UpdateByIdSkippingNoOp(id, data, storeOk) ==
    /\ LET oldDoc == live[id]
       IN  IF oldDoc = NoDoc \/ DetectChanges(oldDoc, ApplyUpdate(oldDoc, data)) = [k \in {} |-> k]
             THEN /\ storeOk
                  /\ hres' = [kind |-> "return", found |-> oldDoc # NoDoc]
                  /\ UNCHANGED <<live, history, hlog, hfaults>>
             ELSE LET updated == ApplyUpdate(oldDoc, data)
                  IN  /\ live' = [live EXCEPT ![id] = updated]
                      /\ Track(UpdateEntry(history, oldDoc, updated, NoUser), storeOk, "update", id)
    /\ UNCHANGED <<migVars, raceVars, diffVars>>

\* EasyMongo.updateById(id, data): findById, crud.updateById, then
\* trackUpdate(oldDoc, result) when both exist
UpdateById(id, data, storeOk) ==
    /\ LET oldDoc == live[id]
       IN  IF oldDoc = NoDoc
             THEN /\ storeOk
                  /\ hres' = [kind |-> "return", found |-> FALSE]
                  /\ UNCHANGED <<live, history, hlog, hfaults>>
             ELSE LET updated == ApplyUpdate(oldDoc, data)
                  IN  /\ live' = [live EXCEPT ![id] = updated]
                      /\ Track(UpdateEntry(history, oldDoc, updated, NoUser), storeOk, "update", id)
    /\ UNCHANGED <<migVars, raceVars, diffVars>>

\* EasyMongo.deleteById(id): findById, crud.deleteById, then
\* trackDeletion(docToDelete) when it existed
DeleteById(id, storeOk) ==
    /\ LET docToDelete == live[id]
       IN  IF docToDelete = NoDoc
             THEN /\ storeOk
                  /\ hres' = [kind |-> "return", found |-> FALSE]
                  /\ UNCHANGED <<live, history, hlog, hfaults>>
             ELSE /\ live' = [live EXCEPT ![id] = NoDoc]
                  /\ Track(DeletionEntry(history, docToDelete, NoUser), storeOk, "delete", id)
    /\ UNCHANGED <<migVars, raceVars, diffVars>>

\* a filter is a document of the fields to match; Model.find(filter) returns
\* the records that have every field of the filter with the filter's value
Filters == {[name |-> "A"]}

Matches(doc, filter) ==
    /\ doc # NoDoc
    /\ \A k \in DOMAIN filter : Get(doc, k) = filter[k]

Find(store, filter) == {id \in DocIds : Matches(store[id], filter)}

\* the orders in which a query may return the records of S
Orders(S) ==
    {t \in [1 .. Cardinality(S) -> S] : \A x \in S : \E i \in DOMAIN t : t[i] = x}

\* every order of every set of records
DocOrders == UNION {Orders(S) : S \in SUBSET DocIds}

\* the entries are saved one after another, each awaited before the next; the
\* first rejected save throws and the entries after it are never written.
\* failAt is the position of the write the store fails, 0 for none
RECURSIVE SaveAll(_, _, _)
SaveAll(h, entries, failAt) ==
    IF entries = <<>> THEN [history |-> h, ok |-> TRUE]
    ELSE IF ~SaveAccepted(h, Head(entries), failAt # 1) THEN [history |-> h, ok |-> FALSE]
    ELSE SaveAll(h \cup {Head(entries)}, Tail(entries), failAt - 1)

\* the tail shared by the facade's calls that track several records: touched
\* is the set of records the call wrote to or tracked
TrackAll(entries, failAt, touched) ==
    /\ failAt \in 0 .. Len(entries)
    /\ Cardinality(history) + Len(entries) <= MaxHistory
    /\ (failAt = 0 \/ hfaults < MaxFaults)
    /\ hfaults' = IF failAt = 0 THEN hfaults ELSE hfaults + 1
    /\ LET saved == SaveAll(history, entries, failAt)
       IN  /\ history' = saved.history
           /\ hres' = IF saved.ok THEN [kind |-> "return"]
                      ELSE [kind |-> "throw", error |-> "history"]
    /\ hlog' = [id \in DocIds |-> IF id \in touched THEN OtherCalls ELSE hlog[id]]

\* EasyMongo.createMany(dataArray): insertMany, then trackCreation of each
\* result in turn; ids are the _id values of the documents, in array order
CreateMany(ids, data, failAt) ==
    /\ \A i \in DOMAIN ids : live[ids[i]] = NoDoc
    /\ NamedInOrder(ids)
    /\ live' = [id \in DocIds |->
                  IF id \in Range(ids) THEN NewDocument(id, data) ELSE live[id]]
    /\ TrackAll([i \in DOMAIN ids |-> CreationEntry(NewDocument(ids[i], data), NoUser)],
                failAt, Range(ids))
    /\ UNCHANGED <<migVars, raceVars, diffVars>>

\* crud.update: findOneAndUpdate(filter, data, {new: true}) changes one record
\* that matches, the one the store meets first (picked), or none
FindOneAndUpdate(store, filter, data, picked) ==
    IF Find(store, filter) = {} THEN store
    ELSE [store EXCEPT ![picked] = ApplyUpdate(@, data)]

\* EasyMongo.update(filter, data): oldDocs = find(filter), crud.update, then
\* updatedDocs = find(filter) and trackUpdate(oldDoc, updatedDoc) for each old
\* record found again among updatedDocs
Update(filter, data, picked, oldDocs, failAt) ==
    /\ Range(oldDocs) = Find(live, filter)
    /\ picked \in Find(live, filter) \/ Find(live, filter) = {}
    /\ LET updated == FindOneAndUpdate(live, filter, data, picked)
           updatedDocs == Find(updated, filter)
           tracked == SelectSeq(oldDocs, LAMBDA id : id \in updatedDocs)
       IN  /\ live' = updated
           /\ TrackAll([i \in DOMAIN tracked |->
                           UpdateEntry(history, live[tracked[i]], updated[tracked[i]], NoUser)],
                       failAt, Range(tracked) \cup {id \in DocIds : updated[id] # live[id]})
    /\ UNCHANGED <<migVars, raceVars, diffVars>>

\* crud.remove: deleteOne(filter) removes one record that matches, the one the
\* store meets first (picked), or none
DeleteOne(store, filter, picked) ==
    IF Find(store, filter) = {} THEN store
    ELSE [store EXCEPT ![picked] = NoDoc]

\* EasyMongo.delete(filter): docsToDelete = find(filter), crud.delete, then
\* trackDeletion of every record of docsToDelete
Delete(filter, picked, docsToDelete, failAt) ==
    /\ Range(docsToDelete) = Find(live, filter)
    /\ picked \in Find(live, filter) \/ Find(live, filter) = {}
    /\ live' = DeleteOne(live, filter, picked)
    /\ TrackAll([i \in DOMAIN docsToDelete |->
                    DeletionEntry(history, live[docsToDelete[i]], NoUser)],
                failAt, Range(docsToDelete))
    /\ UNCHANGED <<migVars, raceVars, diffVars>>

\* delete versionData._id; delete versionData.__v
StripInternal(data) == [k \in DOMAIN data \ InternalKeys |-> data[k]]

\* options.user handed on as it came, with no label of its own for a revert
RevertUserUnmarked(user) == user

\* the user revertToVersion hands to trackUpdate: options.user || 'system (revert)'
RevertUser(user) == IF user = NoUser THEN "system (revert)" ELSE user

\* a revert that looks for the live record only after it has updated it
RevertWithoutLookup(id, v, user, storeOk) ==
    /\ IF ~(\E e \in EntriesOf(history, id) : e.version = v)
         THEN /\ hres' = [kind |-> "throw", error |-> "no version"]
              /\ UNCHANGED <<live, history, hlog, hfaults>>
         ELSE IF live[id] = NoDoc
         THEN /\ live' = [live EXCEPT ![id] =
                            NewDocument(id, StripInternal(GetVersion(history, id, v)))]
              /\ hres' = [kind |-> "throw", error |-> "no document"]
              /\ UNCHANGED <<history, hlog, hfaults>>
         ELSE LET currentDoc == live[id]
                  versionData == StripInternal(GetVersion(history, id, v))
                  updatedDoc == ApplyUpdate(currentDoc, versionData)
              IN  /\ live' = [live EXCEPT ![id] = updatedDoc]
                  /\ Track(UpdateEntry(history, currentDoc, updatedDoc, RevertUser(user)),
                           storeOk, "revert", id)
    /\ UNCHANGED <<migVars, raceVars, diffVars>>

\* revertToVersion(documentId, version, options)
RevertToVersion(id, v, user, storeOk) ==
    /\ IF ~(\E e \in EntriesOf(history, id) : e.version = v)
         THEN /\ hres' = [kind |-> "throw", error |-> "no version"]
              /\ UNCHANGED <<live, history, hlog, hfaults>>
         ELSE IF live[id] = NoDoc
         THEN /\ hres' = [kind |-> "throw", error |-> "no document"]
              /\ UNCHANGED <<live, history, hlog, hfaults>>
         ELSE LET currentDoc == live[id]
                  versionData == StripInternal(GetVersion(history, id, v))
                  updatedDoc == ApplyUpdate(currentDoc, versionData)
              IN  /\ live' = [live EXCEPT ![id] = updatedDoc]
                  /\ Track(UpdateEntry(history, currentDoc, updatedDoc, RevertUser(user)),
                           storeOk, "revert", id)
    /\ UNCHANGED <<migVars, raceVars, diffVars>>

(***************************************************************************)
(* Two callers of trackUpdate / trackDeletion against one history          *)
(***************************************************************************)
Callers == {"w1", "w2"}

IdleWriter == [pc |-> "idle", entry |-> NoChanges, outcome |-> "none"]

InitWriters == writers = [w \in Callers |-> IdleWriter]

\* the documents the callers hand to the tracking calls
WriterDocs(id) == {NewDocument(id, [name |-> v]) : v \in {"A", "B"}}

\* the calls in flight: each has read the latest version and not yet saved
InFlight == {w \in Callers : writers[w].pc = "save"}

\* trackUpdate(oldDocument, newDocument) of caller w up to historyEntry.save():
\* the latest version is read and the entry is built from it
TrackUpdateRead(w, oldDoc, newDoc) ==
    /\ writers[w].pc = "idle"
    /\ Cardinality(history) + Cardinality(InFlight) < MaxHistory
    /\ writers' = [writers EXCEPT ![w] =
           [pc |-> "save", entry |-> UpdateEntry(history, oldDoc, newDoc, NoUser),
            outcome |-> "none"]]
    /\ UNCHANGED <<migVars, histVars, runners, diffVars>>

\* trackDeletion(document) of caller w up to historyEntry.save()
TrackDeletionRead(w, doc) ==
    /\ writers[w].pc = "idle"
    /\ Cardinality(history) + Cardinality(InFlight) < MaxHistory
    /\ writers' = [writers EXCEPT ![w] =
           [pc |-> "save", entry |-> DeletionEntry(history, doc, NoUser),
            outcome |-> "none"]]
    /\ UNCHANGED <<migVars, histVars, runners, diffVars>>

\* historyEntry.save() of caller w: the store does not fail here, so a rejected
\* save is the unique index's, and it throws out of the tracking call
TrackSave(w) ==
    /\ writers[w].pc = "save"
    /\ IF SaveAccepted(history, writers[w].entry, TRUE)
         THEN /\ history' = history \cup {writers[w].entry}
              /\ writers' = [writers EXCEPT ![w].pc = "idle", ![w].outcome = "return"]
         ELSE /\ UNCHANGED history
              /\ writers' = [writers EXCEPT ![w].pc = "idle", ![w].outcome = "throw"]
    /\ UNCHANGED <<migVars, live, hres, hlog, hfaults, runners, diffVars>>

NextWriters ==
    \/ \E w \in Callers, id \in DocIds : \E oldDoc, newDoc \in WriterDocs(id) :
          TrackUpdateRead(w, oldDoc, newDoc)
    \/ \E w \in Callers, id \in DocIds : \E doc \in WriterDocs(id) :
          TrackDeletionRead(w, doc)
    \/ \E w \in Callers : TrackSave(w)

(***************************************************************************)
(* Migration helper: createMigrationHelper(model) on the model's collection*)
(***************************************************************************)
HelperFields == {"name", "status"}
HelperValues == {"A", "B"}

\* what a caller may store in a record before the helpers run
HelperData == UNION {[F -> HelperValues] : F \in SUBSET HelperFields}

\* the functions a caller may hand to transformField
TransformFns == [HelperValues -> HelperValues]

\* $set: {[field]: v} on one record
SetField(doc, field, v) ==
    [k \in DOMAIN doc \cup {field} |-> IF k = field THEN v ELSE doc[k]]

\* $unset: {[field]: 1} on one record
UnsetField(doc, field) == [k \in DOMAIN doc \ {field} |-> doc[k]]

\* $rename: {[oldName]: newName} on one record: nothing when the record has no
\* oldName; otherwise newName takes its value, over any value it had
RenameInDoc(doc, oldName, newName) ==
    IF oldName \notin DOMAIN doc THEN doc
    ELSE [k \in (DOMAIN doc \ {oldName}) \cup {newName} |->
             IF k = newName THEN doc[oldName] ELSE doc[k]]

\* one iteration of transformField's loop and its updateOne
TransformInDoc(doc, field, transformFn) ==
    IF Get(doc, field) # Undefined THEN SetField(doc, field, transformFn[doc[field]])
    ELSE doc

\* model.updateMany({}, update): every record of the collection becomes what
\* the update makes of it, updated[id]
UpdateMany(store, updated) ==
    [id \in DocIds |-> IF store[id] = NoDoc THEN NoDoc ELSE updated[id]]

ModifiedCount(before, after) == Cardinality({id \in DocIds : before[id] # after[id]})

\* what a helper call leaves unchanged
HelperFrame ==
    UNCHANGED <<migrations, ledger, pc, events, ledgerAtCall, effect, faults,
                history, hres, hlog, hfaults, raceVars, diffVars>>

\* crud.create(data): a record stored without the helper
Insert(id, data) ==
    /\ live[id] = NoDoc
    /\ live' = [live EXCEPT ![id] = NewDocument(id, data)]
    /\ call' = [op |-> "create"]
    /\ result' = [kind |-> "return"]
    /\ HelperFrame

\* helper.addField(field, defaultValue)
AddField(field, defaultValue) ==
    /\ live' = UpdateMany(live, [id \in DocIds |-> SetField(live[id], field, defaultValue)])
    /\ call' = [op |-> "addField", field |-> field, value |-> defaultValue]
    /\ result' = [kind |-> "return", modifiedCount |-> ModifiedCount(live, live')]
    /\ HelperFrame

\* helper.removeField(field)
RemoveField(field) ==
    /\ live' = UpdateMany(live, [id \in DocIds |-> UnsetField(live[id], field)])
    /\ call' = [op |-> "removeField", field |-> field]
    /\ result' = [kind |-> "return", modifiedCount |-> ModifiedCount(live, live')]
    /\ HelperFrame

\* helper.renameField(oldName, newName); the store rejects a $rename of a field
\* to itself
RenameField(oldName, newName) ==
    /\ call' = [op |-> "renameField", oldName |-> oldName, newName |-> newName]
    /\ IF oldName = newName
         THEN /\ UNCHANGED live
              /\ result' = [kind |-> "throw", error |-> "rename"]
         ELSE /\ live' = UpdateMany(live, [id \in DocIds |->
                                  RenameInDoc(live[id], oldName, newName)])
              /\ result' = [kind |-> "return", modifiedCount |-> ModifiedCount(live, live')]
    /\ HelperFrame

\* helper.transformField(field, transformFn): find({}), one $set per record that
\* has the field, bulkWrite
TransformField(field, transformFn) ==
    /\ live' = UpdateMany(live, [id \in DocIds |-> TransformInDoc(live[id], field, transformFn)])
    /\ call' = [op |-> "transformField", field |-> field, transformFn |-> transformFn]
    /\ result' = [kind |-> "return", modifiedCount |-> ModifiedCount(live, live')]
    /\ HelperFrame

NextHelper ==
    \/ \E id \in DocIds, data \in HelperData : Insert(id, data)
    \/ \E field \in HelperFields, defaultValue \in HelperValues : AddField(field, defaultValue)
    \/ \E field \in HelperFields : RemoveField(field)
    \/ \E oldName, newName \in HelperFields : RenameField(oldName, newName)
    \/ \E field \in HelperFields, transformFn \in TransformFns : TransformField(field, transformFn)

(***************************************************************************)
(* _detectChanges on its own                                               *)
(***************************************************************************)
DiffFields == {"name", "tag"}
DiffValues == {"A", "B"}

\* the documents handed to _detectChanges: _id and __v, and any of DiffFields
DiffDocs ==
    {[k \in InternalKeys \cup DOMAIN data |->
         IF k = "_id" THEN id ELSE IF k = "__v" THEN v ELSE data[k]] :
       id \in DocIds, v \in {0, 1},
       data \in UNION {[F -> DiffValues] : F \in SUBSET DiffFields}}

NoDiff == [oldDoc |-> NoDoc, newDoc |-> NoDoc, changes |-> NoChanges, returned |-> FALSE]

InitDiff == diff = NoDiff

\* the arguments of one _detectChanges call
InitDiffInputs ==
    diff \in {[oldDoc |-> o, newDoc |-> n, changes |-> NoChanges, returned |-> FALSE] :
                 o \in DiffDocs, n \in DiffDocs}

\* changes = this._detectChanges(oldDocument, newDocument)
DetectChangesCall ==
    /\ ~diff.returned
    /\ diff.oldDoc # NoDoc
    /\ diff' = [diff EXCEPT !.changes = DetectChanges(diff.oldDoc, diff.newDoc),
                            !.returned = TRUE]
    /\ UNCHANGED <<migVars, histVars, raceVars>>

NextDiff == DetectChangesCall

Users == {NoUser, "admin"}

NextHist ==
    \/ \E id \in DocIds, data \in CreateInputs, storeOk \in BOOLEAN : Create(id, data, storeOk)
    \/ \E id \in DocIds, data \in UpdateInputs, storeOk \in BOOLEAN : UpdateById(id, data, storeOk)
    \/ \E id \in DocIds, storeOk \in BOOLEAN : DeleteById(id, storeOk)
    \/ \E id \in DocIds, v \in 1 .. MaxHistory, user \in Users, storeOk \in BOOLEAN :
          RevertToVersion(id, v, user, storeOk)

\* the facade's tracked calls on records: by id and by filter
NextCrud ==
    \/ \E id \in DocIds, data \in CreateInputs, storeOk \in BOOLEAN : Create(id, data, storeOk)
    \/ \E id \in DocIds, data \in UpdateInputs, storeOk \in BOOLEAN : UpdateById(id, data, storeOk)
    \/ \E id \in DocIds, storeOk \in BOOLEAN : DeleteById(id, storeOk)
    \/ \E ids \in DocOrders \ {<<>>}, data \in CreateInputs, failAt \in 0 .. Cardinality(DocIds) :
          CreateMany(ids, data, failAt)
    \/ \E filter \in Filters, data \in UpdateInputs, picked \in DocIds, oldDocs \in DocOrders,
          failAt \in 0 .. Cardinality(DocIds) :
          Update(filter, data, picked, oldDocs, failAt)
    \/ \E filter \in Filters, picked \in DocIds, docsToDelete \in DocOrders,
          failAt \in 0 .. Cardinality(DocIds) :
          Delete(filter, picked, docsToDelete, failAt)

Init == InitMig /\ InitHist /\ InitRunners /\ InitWriters /\ InitDiff

SpecMig == Init /\ [][NextMig]_vars

SpecHist == Init /\ [][NextHist]_vars

SpecCrud == Init /\ [][NextCrud]_vars

\* a process that only configures its registry
NextReg ==
    \/ \E m \in MigrationInputs : RegisterMigration(m)
    \/ NewRunner
    \/ Return

SpecReg == Init /\ [][NextReg]_vars

\* one process that registers, applies and rolls back the last migration
NextLast ==
    \/ \E m \in MigrationInputs : RegisterMigration(m)
    \/ \E c \in BOOLEAN : ApplyBegin(c)
    \/ \E upOk, storeOk \in BOOLEAN : ApplyStep(upOk, storeOk)
    \/ \E downOk, storeOk \in BOOLEAN : RollbackLastMigration(downOk, storeOk)
    \/ Return

SpecLast == Init /\ [][NextLast]_vars

SpecRunners == Init /\ [][NextRunners]_vars

SpecWriters == Init /\ [][NextWriters]_vars

SpecHelper == Init /\ [][NextHelper]_vars

\* a _detectChanges call about to be made on any two documents
InitCall == InitMig /\ InitHist /\ InitRunners /\ InitWriters /\ InitDiffInputs

SpecDiff == InitCall /\ [][NextDiff]_vars

(***************************************************************************)
(* History log: properties                                                 *)
(***************************************************************************)

\* C1: the versions of a document's history entries are exactly 1..k, k the
\* number of its entries: no gap, no duplicate, ascending from 1
C1_GaplessVersions ==
    \A id \in DocIds :
        VersionsOf(history, id) = 1 .. Cardinality(EntriesOf(history, id))

\* a document created, updated and reverted, while the other document has
\* history of its own
C1_Witness ==
    \E id \in DocIds :
        /\ Cardinality(EntriesOf(history, id)) = 2
        /\ \E e \in EntriesOf(history, id) : e.changedBy = "system (revert)"
        /\ \E other \in DocIds \ {id} : EntriesOf(history, other) # {}

\* C2: after create, N updateById calls and deleteById of one record, each
\* tracked, getHistory returns N+2 entries with versions 1..N+2; version 1 is
\* the create, version N+2 the delete, the ones between are updates
C2_CreateUpdatesDelete ==
    \A id \in DocIds :
        hlog[id].phase = "deleted" =>
            LET n == hlog[id].updates
                h == GetHistory(history, id)
            IN  /\ Len(h) = n + 2
                /\ {h[i].version : i \in 1 .. Len(h)} = 1 .. n + 2
                /\ \A i \in 1 .. Len(h) :
                      h[i].operation = IF h[i].version = 1 THEN "create"
                                       ELSE IF h[i].version = n + 2 THEN "delete"
                                       ELSE "update"

\* a record created, updated once and deleted
C2_Witness ==
    \E id \in DocIds : hlog[id].phase = "deleted" /\ hlog[id].updates = 1

\* the fields of a snapshot other than the storage-identity fields
DataFields(data) == DOMAIN data \ InternalKeys

\* two snapshots that agree on every field other than _id and __v, a field
\* one of them lacks included
SameData(a, b) ==
    \A k \in DataFields(a) \cup DataFields(b) : Get(a, k) = Get(b, k)

\* C11: after a successful revertToVersion(id, v) the snapshot of the entry the
\* revert wrote equals the snapshot stored at version v on every field other
\* than _id and __v, fields added after version v being absent again
C11_RevertRestoresSnapshot ==
    [][\A id \in DocIds, v \in 1 .. MaxHistory, user \in Users :
          (RevertToVersion(id, v, user, TRUE) /\ hres'.kind = "return") =>
              \E e \in history' \ history :
                  /\ e.documentId = id
                  /\ e.version = NextVersion(history, id)
                  /\ SameData(e.data, GetVersion(history, id, v))]_vars

\* C12: the stored history is append-only: no step changes or removes an entry,
\* and a revertToVersion that returns adds exactly one entry, of the reverted
\* document and with its next version, leaving every stored entry as it was
C12_AppendOnly ==
    [][/\ history \subseteq history'
       /\ \A id \in DocIds, v \in 1 .. MaxHistory, user \in Users, storeOk \in BOOLEAN :
             (RevertToVersion(id, v, user, storeOk) /\ hres'.kind = "return") =>
                 \E e \in history' :
                     /\ e \notin history
                     /\ history' = history \cup {e}
                     /\ e.documentId = id
                     /\ e.version = NextVersion(history, id)]_vars

\* a document whose history holds the entry a revert added last and, under
\* it, the two entries that were there before
C12_Witness ==
    \E id \in DocIds : \E e \in EntriesOf(history, id) :
        /\ e.version = 3
        /\ e.changedBy = "system (revert)"
        /\ VersionsOf(history, id) = 1 .. 3

\* C13: revertToVersion(id, v) throws a not-found error when the history has
\* no entry (id, v), and when it has one but the live record id is gone; in
\* both cases the live records and the history stay as they were
C13_RevertNotFound ==
    [][\A id \in DocIds, v \in 1 .. MaxHistory, user \in Users, storeOk \in BOOLEAN :
          RevertToVersion(id, v, user, storeOk) =>
              /\ v \notin VersionsOf(history, id) =>
                    /\ hres' = [kind |-> "throw", error |-> "no version"]
                    /\ live' = live /\ history' = history
              /\ (v \in VersionsOf(history, id) /\ live[id] = NoDoc) =>
                    /\ hres' = [kind |-> "throw", error |-> "no document"]
                    /\ live' = live /\ history' = history]_vars

\* a revert has just failed because the record of a stored version is gone
C13_Witness ==
    /\ hres = [kind |-> "throw", error |-> "no document"]
    /\ \E id \in DocIds : live[id] = NoDoc /\ EntriesOf(history, id) # {}

\* the entry a returning revertToVersion(id, v, {user}) step has added
RevertEntry(id) == CHOOSE e \in history' \ history : e.documentId = id

\* the actor label of the entry a normal edit by the same caller would write
\* for the same change
EditLabel(id, user) == UpdateEntry(history, live[id], live'[id], user).changedBy

\* C14 as stated: every entry revertToVersion writes carries an actor label
\* that differs from the label of a normal edit by the same caller, whatever
\* options are passed, options.user included
C14_Original ==
    [][\A id \in DocIds, v \in 1 .. MaxHistory, user \in Users :
          (RevertToVersion(id, v, user, TRUE) /\ history' # history) =>
              RevertEntry(id).changedBy # EditLabel(id, user)]_vars

\* C14: an entry revertToVersion writes without options.user carries the label
\* 'system (revert)', which differs from the label of a normal edit without a
\* user; with options.user it carries that user, as a normal edit would
C14_RevertLabel ==
    [][\A id \in DocIds, v \in 1 .. MaxHistory, user \in Users :
          (RevertToVersion(id, v, user, TRUE) /\ history' # history) =>
              IF user = NoUser
                THEN /\ RevertEntry(id).changedBy = "system (revert)"
                     /\ RevertEntry(id).changedBy # EditLabel(id, user)
                ELSE RevertEntry(id).changedBy = user]_vars

\* the history holds an entry a revert wrote for a named user and one a revert
\* wrote without a user
C14_Witness ==
    /\ \E e \in history : e.changedBy = "admin"
    /\ \E e \in history : e.changedBy = "system (revert)"

\* C15: a revert is never silent: when a revertToVersion call has changed the
\* live record then, however the call ends, a rejected history write included,
\* the history has a new entry of that document
C15_RevertNeverSilent ==
    [][\A id \in DocIds, v \in 1 .. MaxHistory, user \in Users, storeOk \in BOOLEAN :
          (RevertToVersion(id, v, user, storeOk) /\ live'[id] # live[id]) =>
              \E e \in history' \ history :
                  e.documentId = id /\ e.version = NextVersion(history, id)]_vars

\* C16: once the history of a document holds a delete entry, no call of the
\* record-access layer (create, createMany, update, updateById, delete,
\* deleteById) adds a further entry for that document
C16_NothingAfterDelete ==
    [][\A id \in DocIds :
          (\E e \in EntriesOf(history, id) : e.operation = "delete") =>
              EntriesOf(history', id) = EntriesOf(history, id)]_vars

\* the empty mapping, {} in JavaScript
EmptyMapping == [k \in {} |-> k]

\* the tracked calls that hand trackUpdate the record before and after: the
\* step is an updateById or a revertToVersion on record id whose history
\* write the store accepts
TrackUpdateStep(id) ==
    \/ \E data \in UpdateInputs : UpdateById(id, data, TRUE)
    \/ \E v \in 1 .. MaxHistory, user \in Users : RevertToVersion(id, v, user, TRUE)

\* C17: trackUpdate called with an old and a new record equal on every field
\* other than _id and __v still appends an entry, with the next version and
\* operation update, and the entry's changes is the empty mapping
C17_NoOpUpdateTracked ==
    [][\A id \in DocIds :
          (/\ TrackUpdateStep(id)
           /\ live[id] # NoDoc /\ live'[id] # NoDoc
           /\ hres'.kind # "throw"
           /\ SameData(live[id], live'[id])) =>
              \E e \in history' \ history :
                  /\ e.documentId = id
                  /\ e.version = NextVersion(history, id)
                  /\ e.operation = "update"
                  /\ e.changes = EmptyMapping]_vars

\* the history holds an update entry whose changes is the empty mapping
C17_Witness ==
    \E e \in history : e.operation = "update" /\ e.changes = EmptyMapping

\* C18 as stated: no entry is emitted for a no-op update: every update entry
\* of the history has a non-empty changes mapping
C18_Original ==
    \A e \in history : e.operation = "update" => e.changes # EmptyMapping

\* C18: every tracked update writes an update entry, a no-op update too; the
\* entry's changes is the empty mapping exactly when no field other than _id
\* and __v differs between the old and the new record. A tracked create and a
\* tracked delete write their entry with changes null
C18_UpdateEntries ==
    [][\A id \in DocIds :
          /\ (TrackUpdateStep(id) /\ live[id] # NoDoc /\ hres'.kind = "return") =>
                \E e \in history' \ history :
                    /\ e.documentId = id
                    /\ e.operation = "update"
                    /\ e.changes = EmptyMapping <=> SameData(live[id], live'[id])
          /\ ((\E data \in CreateInputs : Create(id, data, TRUE)) /\ hres'.kind = "return") =>
                \E e \in history' \ history :
                    e.documentId = id /\ e.operation = "create" /\ e.changes = NoChanges
          /\ (DeleteById(id, TRUE) /\ live[id] # NoDoc /\ hres'.kind = "return") =>
                \E e \in history' \ history :
                    e.documentId = id /\ e.operation = "delete" /\ e.changes = NoChanges]_vars

\* the history holds an update entry with changes and one with none
C18_Witness ==
    \E e1, e2 \in history :
        /\ e1.operation = "update" /\ e1.changes # EmptyMapping
        /\ e2.operation = "update" /\ e2.changes = EmptyMapping
        /\ e1.documentId = e2.documentId

\* how a call ends when a history write was rejected
HistoryError == [kind |-> "throw", error |-> "history"]

\* C19: when the history write fails after the business write of create,
\* createMany, update, updateById, delete or deleteById, the call throws and the
\* live records are as the business write left them: nothing is undone, and
\* the entries saved before the failing one stay
C19_HistoryFailureKeepsWrite ==
    [][/\ hfaults' # hfaults => hres' = HistoryError
       /\ hres' = HistoryError =>
             /\ history \subseteq history'
             /\ \A id \in DocIds, storeOk \in BOOLEAN :
                   /\ \A data \in CreateInputs :
                         Create(id, data, storeOk) =>
                             live' = [live EXCEPT ![id] = NewDocument(id, data)]
                   /\ \A data \in UpdateInputs :
                         UpdateById(id, data, storeOk) =>
                             live' = [live EXCEPT ![id] = ApplyUpdate(live[id], data)]
                   /\ DeleteById(id, storeOk) => live' = [live EXCEPT ![id] = NoDoc]
             /\ \A failAt \in 0 .. Cardinality(DocIds) :
                   /\ \A ids \in DocOrders \ {<<>>}, data \in CreateInputs :
                         CreateMany(ids, data, failAt) =>
                             \A id \in DocIds :
                                 live'[id] = IF id \in Range(ids) THEN NewDocument(id, data)
                                             ELSE live[id]
                   /\ \A filter \in Filters :
                       \A picked \in Find(live, filter), found \in Orders(Find(live, filter)) :
                         /\ \A data \in UpdateInputs :
                               Update(filter, data, picked, found, failAt) =>
                                   live' = [live EXCEPT ![picked] = ApplyUpdate(live[picked], data)]
                         /\ Delete(filter, picked, found, failAt) =>
                               live' = [live EXCEPT ![picked] = NoDoc]]_vars

\* a call has just thrown on its history write and left a live record that
\* has no history entry
C19_Witness ==
    /\ hres = HistoryError
    /\ \E id \in DocIds : live[id] # NoDoc /\ EntriesOf(history, id) = {}

\* the operation of the entry that records what a step did to record id
MatchingOperation(id) ==
    IF live[id] = NoDoc THEN "create"
    ELSE IF live'[id] = NoDoc THEN "delete"
    ELSE "update"

\* C20: every record that a create, createMany, update, updateById, delete or
\* deleteById call which returns has created, modified or removed got a history
\* entry of the matching operation in that call
C20_EveryMutationTracked ==
    [][hres'.kind = "return" =>
          \A id \in DocIds :
              live'[id] # live[id] =>
                  \E e \in history' \ history :
                      e.documentId = id /\ e.operation = MatchingOperation(id)]_vars

(***************************************************************************)
(* Migration runner: properties                                            *)
(***************************************************************************)
Ups == SelectSeq(events, LAMBDA e : e.op = "up")
Downs == SelectSeq(events, LAMBDA e : e.op = "down")

HasEvent(op, n) == \E i \in 1 .. Len(events) : events[i].op = op /\ events[i].name = n

EventIndex(op, n) == CHOOSE i \in 1 .. Len(events) : events[i].op = op /\ events[i].name = n

\* the position of name n in the registry
RegIndex(n) == CHOOSE i \in 1 .. Len(migrations) : migrations[i].name = n

\* the version under which n was recorded before the call
RecordedVersion(n) == FindByName(ledgerAtCall, n).version

\* C3: between calls the ledger holds a record named n exactly when n's up()
\* last completed and its down() has not completed since
C3_LedgerIffApplied ==
    pc = "idle" => \A n \in Names : HasName(ledger, n) <=> effect[n]

\* C4: applyMigrations invokes up() for no name the ledger held when the call
\* started, and for no name twice; with every registered name in the ledger it
\* invokes nothing, leaves the ledger alone and returns 'No pending migrations'
C4_NeverReapplies ==
    call.op = "apply" =>
        /\ \A i \in 1 .. Len(events) :
              events[i].op = "up" =>
                  /\ ~HasName(ledgerAtCall, events[i].name)
                  /\ \A j \in 1 .. Len(events) :
                        (events[j].op = "up" /\ events[j].name = events[i].name) => j = i
        /\ NameSet(migrations) \subseteq NameSet(ledgerAtCall) =>
              /\ pc = "done"
              /\ events = <<>>
              /\ ledger = ledgerAtCall
              /\ result = [kind |-> "return", applied |-> 0, message |-> "No pending migrations"]

\* a new runner registered an applied name under another version, and
\* applyMigrations found nothing pending
C4_Witness ==
    /\ pc = "done"
    /\ call.op = "apply"
    /\ migrations # <<>>
    /\ NameSet(migrations) \subseteq NameSet(ledgerAtCall)
    /\ \E m \in Range(migrations) : \E r \in Range(ledgerAtCall) :
          m.name = r.name /\ m.version # r.version

\* the up() calls of one applyMigrations call go through the pending
\* migrations, which are the registered ones the ledger lacked, in ascending
\* version order with equal versions in registration order
AppliedInVersionOrder ==
    LET p == call.pending
    IN  /\ Range(p) = {m \in Range(migrations) : ~HasName(ledgerAtCall, m.name)}
        /\ Len(Ups) <= Len(p)
        /\ \A k \in 1 .. Len(Ups) : Ups[k].name = p[k].name
        /\ \A i, j \in 1 .. Len(p) :
              i < j => \/ p[i].version < p[j].version
                       \/ /\ p[i].version = p[j].version
                          /\ RegIndex(p[i].name) < RegIndex(p[j].name)

\* C5 as stated: ... and when an up() starts, the up() before it has finished
\* and its ledger record was written
C5_Original ==
    call.op = "apply" =>
        /\ AppliedInVersionOrder
        /\ \A k \in 2 .. Len(Ups) :
              LET prev == call.pending[k - 1].name
                  j == EventIndex("up", call.pending[k].name)
              IN  /\ EventIndex("up", prev) < j
                  /\ \E i \in 1 .. j - 1 :
                        events[i] = [op |-> "create", name |-> prev, ok |-> TRUE]
                  /\ HasName(ledger, prev)

\* C5, amended: ... and when an up() starts, the up() before it has finished
\* and, if that migration succeeded, its ledger record was written; a failed
\* one has its failure in the results instead and no record
C5_AscendingOneAtATime ==
    call.op = "apply" =>
        /\ AppliedInVersionOrder
        /\ \A k \in 2 .. Len(Ups) :
              LET prev == call.pending[k - 1].name
                  j == EventIndex("up", call.pending[k].name)
              IN  /\ EventIndex("up", prev) < j
                  /\ call.results[k - 1].name = prev
                  /\ IF call.results[k - 1].success
                       THEN /\ \E i \in 1 .. j - 1 :
                                  events[i] = [op |-> "create", name |-> prev, ok |-> TRUE]
                            /\ HasName(ledger, prev)
                       ELSE ~HasName(ledger, prev)

\* two migrations registered in descending version order, both applied
C5_Witness ==
    /\ pc = "done"
    /\ call.op = "apply"
    /\ Len(migrations) = 2
    /\ migrations[1].version > migrations[2].version
    /\ Len(Ups) = 2
    /\ \A k \in 1 .. 2 : call.results[k].success

\* C6: without continueOnError a failed up() ends the call with an error:
\* nothing is invoked or written after it, the failed migration has no record,
\* the records of the migrations that succeeded before it and the records the
\* ledger held remain, and the pending migrations behind it are untouched
C6_StopsAtFirstFailure ==
    (call.op = "apply" /\ ~call.continueOnError) =>
        \A i \in 1 .. Len(events) :
            (events[i].op = "up" /\ ~events[i].ok) =>
                /\ i = Len(events)
                /\ pc = "done"
                /\ result.kind = "throw"
                /\ ~HasName(ledger, events[i].name)
                /\ \A r \in Range(ledgerAtCall) : r \in Range(ledger)
                /\ \A k \in 1 .. Len(call.results) :
                      call.results[k].success =>
                          [name |-> call.results[k].name,
                           version |-> call.results[k].version] \in Range(ledger)
                /\ \A k \in Len(Ups) + 1 .. Len(call.pending) :
                      /\ ~HasName(ledger, call.pending[k].name)
                      /\ \A e \in Range(events) : e.name # call.pending[k].name

\* the first of two pending migrations failed and the second was never invoked
C6_Witness ==
    /\ pc = "done"
    /\ call.op = "apply"
    /\ ~call.continueOnError
    /\ Len(call.pending) = 2
    /\ events = <<[op |-> "up", name |-> call.pending[1].name, ok |-> FALSE]>>
    /\ result.kind = "throw"

\* what C7 says of a finished applyMigrations call
ContinueOnErrorOutcome ==
    LET p == call.pending
    IN  /\ result.kind = "return"
        /\ \A k \in 1 .. Len(p) :
              Cardinality({i \in 1 .. Len(events) :
                              events[i].op = "up" /\ events[i].name = p[k].name}) = 1
        /\ "results" \in DOMAIN result
        /\ Len(result.results) = Len(p)
        /\ \A k \in 1 .. Len(p) :
              /\ result.results[k].name = p[k].name
              /\ result.results[k].success <=>
                    /\ [op |-> "up", name |-> p[k].name, ok |-> TRUE] \in Range(events)
                    /\ [op |-> "create", name |-> p[k].name, ok |-> TRUE] \in Range(events)
        /\ "failed" \in DOMAIN result
        /\ result.applied + result.failed = Len(p)
        /\ result.applied = Len(ledger) - Len(ledgerAtCall)

\* C7 as stated: with continueOnError every finished applyMigrations call has
\* invoked each pending up() once, returned, and reports one result per pending
\* migration with applied + failed = number pending, applied = records written
C7_Original ==
    (pc = "done" /\ call.op = "apply" /\ call.continueOnError) => ContinueOnErrorOutcome

\* C7, amended: the same of every call that found at least one pending migration
C7_ContinueOnError ==
    (pc = "done" /\ call.op = "apply" /\ call.continueOnError /\ Len(call.pending) > 0)
        => ContinueOnErrorOutcome

\* two pending migrations, one applied and one failed, the call returned
C7_Witness ==
    /\ pc = "done"
    /\ call.op = "apply"
    /\ call.continueOnError
    /\ Len(call.pending) = 2
    /\ result.kind = "return"
    /\ result.applied = 1
    /\ result.failed = 1

\* C8: rollbackLastMigration changes the ledger only by removing the record
\* written last after its down() completed; an empty ledger gives the no-op
\* result; an unregistered migration, a missing down and a throwing down()
\* raise an error and leave the ledger as it was
C8_RollbackLastLeavesLedger ==
    (pc = "done" /\ call.op = "rollbackLast") =>
        /\ ledger # ledgerAtCall =>
              LET n == ledgerAtCall[Len(ledgerAtCall)].name
              IN  /\ [op |-> "down", name |-> n, ok |-> TRUE] \in Range(events)
                  /\ ledger = RemoveByName(ledgerAtCall, n)
                  /\ result.kind = "return"
        /\ ledgerAtCall = <<>> =>
              /\ result = [kind |-> "return", rolled_back |-> 0,
                           message |-> "No migrations to rollback"]
              /\ ledger = <<>>
        /\ ledgerAtCall # <<>> =>
              LET n == ledgerAtCall[Len(ledgerAtCall)].name
              IN  (\/ ~HasName(migrations, n)
                   \/ ~FindByName(migrations, n).down
                   \/ [op |-> "down", name |-> n, ok |-> FALSE] \in Range(events))
                  => /\ result.kind = "throw"
                     /\ ledger = ledgerAtCall

\* the down() of the record written last threw
C8_Witness ==
    /\ pc = "done"
    /\ call.op = "rollbackLast"
    /\ Len(ledgerAtCall) = 2
    /\ events = <<[op |-> "down", name |-> ledgerAtCall[2].name, ok |-> FALSE]>>
    /\ result.kind = "throw"

\* what C9 says of rollbackToVersion apart from the order of the down() calls
RollbackToOneAtATime ==
    /\ \A e \in Range(events) :
          /\ HasName(ledgerAtCall, e.name)
          /\ RecordedVersion(e.name) > call.target
    /\ \A i \in 1 .. Len(events) :
          /\ (events[i].op = "down" /\ events[i].ok) =>
                /\ i < Len(events)
                /\ events[i + 1].op = "delete"
                /\ events[i + 1].name = events[i].name
                /\ events[i + 1].ok => ~HasName(ledger, events[i].name)
          /\ events[i].op = "delete" =>
                /\ i > 1
                /\ events[i - 1] = [op |-> "down", name |-> events[i].name, ok |-> TRUE]
          /\ ~events[i].ok => (i = Len(events) /\ pc = "done" /\ result.kind = "throw")
    /\ \A r \in Range(call.list) :
          ~HasEvent("down", r.name) => \A e \in Range(Downs) : r.version <= RecordedVersion(e.name)
    /\ pc = "rollbackTo" => \A j \in call.i .. Len(call.list) : ~HasEvent("down", call.list[j].name)
    /\ (pc = "done" /\ result.kind = "throw") =>
          /\ \A j \in call.i .. Len(call.list) : call.list[j] \in Range(ledger)
          /\ \A j \in call.i + 1 .. Len(call.list) :
                \A e \in Range(events) : e.name # call.list[j].name

\* C9 as stated: the down() calls of rollbackToVersion come in strictly
\* descending version order
C9_Original ==
    call.op = "rollbackTo" =>
        /\ RollbackToOneAtATime
        /\ \A i, j \in 1 .. Len(Downs) :
              i < j => RecordedVersion(Downs[i].name) > RecordedVersion(Downs[j].name)

\* C9, amended: the down() calls come in descending version order, records of
\* equal version in either order
C9_DescendingOneAtATime ==
    call.op = "rollbackTo" =>
        /\ RollbackToOneAtATime
        /\ \A i, j \in 1 .. Len(Downs) :
              i < j => RecordedVersion(Downs[i].name) >= RecordedVersion(Downs[j].name)

\* the record of the higher version was rolled back and deleted, then the
\* down() of the lower one threw and its record stayed
C9_Witness ==
    /\ pc = "done"
    /\ call.op = "rollbackTo"
    /\ Len(call.list) = 2
    /\ call.list[1].version > call.list[2].version
    /\ events = <<[op |-> "down", name |-> call.list[1].name, ok |-> TRUE],
                  [op |-> "delete", name |-> call.list[1].name, ok |-> TRUE],
                  [op |-> "down", name |-> call.list[2].name, ok |-> FALSE]>>
    /\ result.kind = "throw"
    /\ ledger = <<call.list[2]>>

\* C10: after rollbackToVersion(t) returned, the ledger has no record above t,
\* has the records up to t it had before, unchanged and in their order, and
\* rolled_back is the number of records removed
C10_RollbackToFrame ==
    (pc = "done" /\ call.op = "rollbackTo" /\ result.kind = "return") =>
        /\ \A r \in Range(ledger) : r.version <= call.target
        /\ ledger = SelectSeq(ledgerAtCall, LAMBDA r : r.version <= call.target)
        /\ result.rolled_back = Len(ledgerAtCall) - Len(ledger)

\* one record above the target was removed, one at the target stayed
C10_Witness ==
    /\ pc = "done"
    /\ call.op = "rollbackTo"
    /\ result.kind = "return"
    /\ result.rolled_back = 1
    /\ \E r \in Range(ledger) : r.version = call.target

\* the names of the registry are pairwise distinct
DistinctNames(reg) ==
    \A i, j \in 1 .. Len(reg) : reg[i].name = reg[j].name => i = j

\* a definition that lacks a name, a version or a forward operation; a version
\* of 0 counts as none, as registerMigration takes it
Incomplete(m) == m.name = NoName \/ m.version \in {NoVersion, 0} \/ ~m.up

C30_VersionZeroRejected ==
    [][(pc = "idle" /\ call'.op = "register") =>
          /\ \A m \in MigrationInputs :
                (RegisterMigration(m) /\ m.version = 0 /\ m.name # NoName /\ m.up) =>
                    /\ result' = [kind |-> "throw", error |-> "invalid"]
                    /\ migrations' = migrations
          /\ \A i \in 1 .. Len(migrations') : migrations'[i].version # 0]_vars

\* a registration has just been refused as incomplete while the registry
\* holds a definition
C30_Witness ==
    /\ pc = "done" /\ call.op = "register"
    /\ result.kind = "throw" /\ result.error = "invalid"
    /\ Len(migrations) = 1

AscendingVersions(t) == \A i \in 1 .. Len(t) - 1 : t[i].version <= t[i + 1].version

\* the registered definitions no ledger record names, as name and version
NotInLedger ==
    {[name |-> m.name, version |-> m.version] :
        m \in {x \in Range(migrations) : x.name \notin NameSet(ledger)}}

\* what a getMigrationStatus call that has just ended returned
StatusCorrect ==
    /\ result.kind = "return"
    /\ IsPermOf(result.applied, ledger)
    /\ AscendingVersions(result.applied)
    /\ Range(result.pending) = NotInLedger
    /\ Len(result.pending) = Cardinality(NotInLedger)
    /\ AscendingVersions(result.pending)
    /\ NameSet(result.applied) \cap NameSet(result.pending) = {}

\* C24: getMigrationStatus returns as applied all ledger records in ascending
\* version order and as pending exactly the registered definitions whose name
\* is not in the ledger, in ascending version order; no name is in both, and
\* the call changes neither the ledger nor the registry
C24_MigrationStatus ==
    [][GetMigrationStatus => (StatusCorrect' /\ UNCHANGED <<migrations, ledger>>)]_vars

\* a status call has returned one applied record and one pending definition
C24_Witness ==
    /\ pc = "done" /\ call.op = "status"
    /\ Len(result.applied) = 1 /\ Len(result.pending) = 1

\* the step is a rollbackLastMigration call that returns having rolled back
RolledBackLast ==
    /\ pc = "idle" /\ call'.op = "rollbackLast"
    /\ result'.kind = "return" /\ result'.rolled_back = 1

\* the record the step removed from the ledger
Removed == CHOOSE r \in Range(ledger) : r \notin Range(ledger')

\* C25 as stated: from a ledger built by registerMigration and applyMigrations
\* calls, every successful rollbackLastMigration removes the record of the
\* highest version in the ledger, so that successive calls remove the records
\* in strictly descending version order
C25_Original ==
    [][RolledBackLast =>
          /\ Range(ledger') # Range(ledger)
          /\ \A r \in Range(ledger') : r.version < Removed.version]_vars

\* C25: every successful rollbackLastMigration removes the record written to
\* the ledger last and no other; it is the record of the highest version when
\* the ledger was written in strictly ascending version order
C25_RemovesLastApplied ==
    [][RolledBackLast =>
          /\ ledger' = SubSeq(ledger, 1, Len(ledger) - 1)
          /\ (\A i \in 1 .. Len(ledger) - 1 : ledger[i].version < ledger[i + 1].version) =>
                \A r \in Range(ledger') : r.version < ledger[Len(ledger)].version]_vars

\* a rollbackLastMigration call has removed a record and left one of a higher
\* version in the ledger
C25_Witness ==
    /\ pc = "done" /\ call.op = "rollbackLast"
    /\ result.kind = "return" /\ result.rolled_back = 1
    /\ \E r \in Range(ledger) : r.version > result.version

(***************************************************************************)
(* Two processes: properties                                               *)
(***************************************************************************)
\* the processes that have invoked the forward operation of migration n
InvokersOf(n) == {p \in Procs : n \in runners[p].invoked}

\* the unique index on name at work: no two ledger records share a name
OneRecordPerName ==
    \A i, j \in 1 .. Len(ledger) : ledger[i].name = ledger[j].name => i = j

\* C22: when two processes with the same registered migrations run
\* applyMigrations side by side, each migration's forward operation is invoked
\* by at most one of them, and the ledger holds at most one record per name
C22_OneRunnerPerMigration ==
    /\ \A n \in Names : Cardinality(InvokersOf(n)) <= 1
    /\ OneRecordPerName

(***************************************************************************)
(* Two callers: properties                                                 *)
(***************************************************************************)
\* two stored entries of one document carry one version
DuplicateVersion ==
    \E e, f \in history : e # f /\ e.documentId = f.documentId /\ e.version = f.version

\* the version caller w read is taken by the time it saves
Overtaken(w) ==
    /\ writers[w].pc = "save"
    /\ writers[w].entry.version \in VersionsOf(history, writers[w].entry.documentId)

\* C23: when two trackUpdate / trackDeletion calls for one documentId interleave
\* their read of the latest version and their save, no two stored entries share
\* (documentId, version): the save of the caller that comes second is rejected,
\* stores nothing, overwrites nothing, and that caller gets an error
C23_RacingWritersRejected ==
    [][/\ ~DuplicateVersion'
       /\ \A w \in Callers :
             (Overtaken(w) /\ writers'[w].pc = "idle") =>
                 /\ history' = history
                 /\ writers'[w].outcome = "throw"]_vars

\* both callers read the same latest version of one document; one has saved and
\* the other's save has been rejected
C23_Witness ==
    \E w, x \in Callers :
        /\ w # x
        /\ writers[w].outcome = "return" /\ writers[w].pc = "idle"
        /\ writers[x].outcome = "throw" /\ writers[x].pc = "idle"
        /\ writers[w].entry.documentId = writers[x].entry.documentId
        /\ writers[w].entry.version = writers[x].entry.version
        /\ writers[w].entry \in history
        /\ writers[x].entry \notin history

(***************************************************************************)
(* _detectChanges: properties                                              *)
(***************************************************************************)
\* the fields the diff of old record o and new record n has to report
Reported(o, n) ==
    {k \in (DOMAIN o \cup DOMAIN n) \ {"_id", "__v"} :
        \/ k \in DOMAIN n /\ Stringify(Get(o, k)) # Stringify(n[k])
        \/ k \in DOMAIN o /\ k \notin DOMAIN n}

\* C28: _detectChanges returns a mapping with key k exactly when k is not an
\* identity field and either k is in the new record with a serialized value
\* different from the old record's or k is in the old record and not in the new
\* one; the entry is {from: old value, to: new value}, to absent for a removed field
C28_DetectChanges ==
    diff.returned =>
        /\ DOMAIN diff.changes = Reported(diff.oldDoc, diff.newDoc)
        /\ \A k \in DOMAIN diff.changes :
              /\ diff.changes[k].from =
                    IF k \in DOMAIN diff.oldDoc THEN diff.oldDoc[k] ELSE Undefined
              /\ diff.changes[k].to =
                    IF k \in DOMAIN diff.newDoc THEN diff.newDoc[k] ELSE Undefined

\* a diff of two records that differ in both identity fields, with name
\* changed and tag removed
C28_Witness ==
    /\ diff.returned
    /\ diff.oldDoc["_id"] # diff.newDoc["_id"]
    /\ diff.oldDoc["__v"] # diff.newDoc["__v"]
    /\ DOMAIN diff.oldDoc = InternalKeys \cup {"name", "tag"}
    /\ DOMAIN diff.newDoc = InternalKeys \cup {"name"}
    /\ diff.changes = [name |-> [from |-> "A", to |-> "B"],
                       tag |-> [from |-> "A", to |-> Undefined]]

(***************************************************************************)
(* Facade calls by filter: entries against state transitions               *)
(***************************************************************************)
\* the entries a step adds to the history
NewEntries == history' \ history

\* C29: a delete entry is written for a record only if the call removed it from
\* the live store, and an update entry only if the call's update was applied to
\* that record, also when the filter of delete(filter) or update(filter, data)
\* matches several records and the store operation changes only one
C29_EntryPerTransition ==
    [][/\ \A e \in NewEntries :
             e.operation = "delete" =>
                 live[e.documentId] # NoDoc /\ live'[e.documentId] = NoDoc
       /\ \A filter \in Filters, data \in UpdateInputs, picked \in DocIds,
             oldDocs \in DocOrders, failAt \in 0 .. Cardinality(DocIds) :
             Update(filter, data, picked, oldDocs, failAt) =>
                 \A e \in NewEntries : e.operation = "update" => e.documentId = picked
       /\ \A id \in DocIds, data \in UpdateInputs, storeOk \in BOOLEAN :
             UpdateById(id, data, storeOk) =>
                 \A e \in NewEntries : e.operation = "update" => e.documentId = id]_vars

(***************************************************************************)
(* Migration helper: properties                                            *)
(***************************************************************************)
\* C26: each of addField, removeField, renameField and transformField is
\* idempotent: for every collection and every argument, transform functions
\* included, a second run right after the first leaves the collection as the
\* first run left it
C26_HelpersIdempotent ==
    [][/\ \A field \in HelperFields, defaultValue \in HelperValues :
             (/\ call = [op |-> "addField", field |-> field, value |-> defaultValue]
              /\ AddField(field, defaultValue)) => live' = live
       /\ \A field \in HelperFields :
             (/\ call = [op |-> "removeField", field |-> field]
              /\ RemoveField(field)) => live' = live
       /\ \A oldName, newName \in HelperFields :
             (/\ call = [op |-> "renameField", oldName |-> oldName, newName |-> newName]
              /\ RenameField(oldName, newName)) => live' = live
       /\ \A field \in HelperFields, transformFn \in TransformFns :
             (/\ call = [op |-> "transformField", field |-> field, transformFn |-> transformFn]
              /\ TransformField(field, transformFn)) => live' = live]_vars

\* C27: addField(field, default) sets the field to the default on every record
\* that lacks it and leaves every record that already has the field unchanged
C27_AddFieldKeepsExisting ==
    [][\A field \in HelperFields, defaultValue \in HelperValues :
           AddField(field, defaultValue) =>
               \A id \in DocIds :
                   live[id] # NoDoc =>
                       live'[id] = IF field \in DOMAIN live[id] THEN live[id]
                                   ELSE SetField(live[id], field, defaultValue)]_vars

====
